---- MODULE Spec2Model ----
(***************************************************************************)
(* A model of lib/task/task.js: task.withContainer (the lazily created,    *)
(* shared container and its teardown), auditing (the audit-logging         *)
(* wrapper), and run / fault (the task runner and its diagnostics).        *)
(*                                                                         *)
(* Promises are modelled by their settlement: an outcome is a record       *)
(* [branch, val]; a handler attached with .then is an action enabled once  *)
(* the promise it is attached to has settled.  Each action is one          *)
(* synchronous run-to-completion piece of the JavaScript code.             *)
(***************************************************************************)
EXTENDS Integers, Sequences, FiniteSets, TLC

\* Number of withContainer invocations made by the caller (besides auditLog).
NumInv == 3

Inv == 1..NumInv
\* auditLog is itself a withContainer'd function (line 90): its invocation.
AuditInv == NumInv + 1
AllInv == 1..AuditInv
\* The invocation whose task is handed to run / auditing.
Main == 1
\* task._container == null
NoCtx == 0
\* No parent: the invocation is made by the caller, not inside a taskdef.
NoParent == 0

(***************************************************************************)
(* Values and errors.  Every value is a record of the same shape so that   *)
(* any two can be compared.                                                *)
(***************************************************************************)
Obj(tag, isProblem, httpCode, message, problemDetails) ==
    [tag |-> tag, isProblem |-> isProblem, httpCode |-> httpCode,
     message |-> message, problemDetails |-> problemDetails]

Nothing == Obj("none", FALSE, 0, "", "null")
Value(name) == Obj("value", FALSE, 0, name, "null")
\* a rejection with null (or undefined)
ErrNull == Obj("null", FALSE, 0, "", "null")
Problem400 == Obj("problem", TRUE, 400, "Invalid input", "null")
Problem499 == Obj("problem", TRUE, 499, "Conflict", "details")
Problem500 == Obj("problem", TRUE, 500, "Internal", "details")
PlainError == Obj("error", FALSE, 0, "boom", "null")
AuditError == Obj("error", FALSE, 0, "audit append failed", "null")
ConnectError == Obj("error", FALSE, 0, "connect failed", "null")
DestroyError == Obj("error", FALSE, 0, "destroy failed", "null")
TaskdefError == Obj("error", FALSE, 0, "taskdef threw", "null")
TypeError == Obj("error", FALSE, 0, "Cannot read property db of undefined", "null")

Resolve(v) == [branch |-> "resolve", val |-> v]
Reject(e) == [branch |-> "reject", val |-> e]
Unsettled == [branch |-> "none", val |-> Nothing]

\* What the task produced by a task definition may settle with.
Outcomes(i) ==
    IF i = Main
    THEN {Resolve(Value("v1"))} \cup
         {Reject(e) : e \in {ErrNull, Problem400, Problem499, Problem500, PlainError}}
    ELSE IF i = AuditInv
    THEN {Resolve(Value("logged")), Reject(AuditError)}
    ELSE {Resolve(Value("v2")), Reject(PlainError)}

(***************************************************************************)
(* Output lines.                                                           *)
(***************************************************************************)
Line(fmt, text, obj) == [fmt |-> fmt, text |-> text, obj |-> obj]
\* writeToStderr(error.message)
Raw(text) == Line("raw", text, Nothing)
\* inspect(x)
Inspect(x) == Line("inspect", "", x)
\* inspect(error.problemDetails)
InspectDetails(d) == Line("inspectDetails", d, Nothing)
\* compose(writeTo(process.stdout), inspect, serialize)
InspectSerialize(v) == Line("inspectSerialize", "", v)

VARIABLES
    parent,       \* parent[i]: the invocation inside whose taskdef i is made
    audited,      \* whether the task handed to run is auditing(action, t)
    pc,           \* per withContainer invocation: where it is
    owner,        \* needsContainer of the invocation
    ctxOf,        \* the container the invocation passed to its taskdef
    result,       \* settlement of taskdef(container)(...args)
    returned,     \* settlement of the task the invocation returned
    container,    \* task._container
    constructed,  \* number of containers constructed so far
    destroyLog,   \* containers on which db.destroy() completed, in order
    auditRecords, \* Audit.log calls made, in order
    audPc,        \* where auditing(action, t) is
    audOutcome,   \* settlement of the task auditing returned
    runPc,        \* where run(t) is
    stdout,
    stderr,
    exitCode      \* process.exitCode (0 while never set)

vars == <<parent, audited, pc, owner, ctxOf, result, returned, container,
          constructed, destroyLog, auditRecords, audPc, audOutcome, runPc,
          stdout, stderr, exitCode>>

procVars == <<stdout, stderr, exitCode>>
jobVars == <<auditRecords, audPc, audOutcome, runPc>>
shapeVars == <<parent, audited>>

Init ==
    /\ parent \in {p \in [Inv -> 0..NumInv] :
                      /\ p[Main] = NoParent
                      /\ \A i \in Inv : p[i] < i}
    /\ audited \in BOOLEAN
    /\ pc = [i \in AllInv |-> "ready"]
    /\ owner = [i \in AllInv |-> FALSE]
    /\ ctxOf = [i \in AllInv |-> NoCtx]
    /\ result = [i \in AllInv |-> Unsettled]
    /\ returned = [i \in AllInv |-> Unsettled]
    /\ container = NoCtx
    /\ constructed = 0
    /\ destroyLog = <<>>
    /\ auditRecords = <<>>
    /\ audPc = IF audited THEN "waiting" ELSE "off"
    /\ audOutcome = Unsettled
    /\ runPc = "pending"
    /\ stdout = <<>>
    /\ stderr = <<>>
    /\ exitCode = 0

(***************************************************************************)
(* task.withContainer                                                      *)
(***************************************************************************)
Children(p) == {j \in Inv : parent[j] = p}
Finished(j) == pc[j] \in {"done", "connectThrew", "taskdefThrew"}
InFlight(j) == pc[j] \in {"pending", "settled"}

\* Mutant: every invocation constructs a container of its own.
NeedsContainerAlways == TRUE

\* const needsContainer = (task._container == null);
NeedsContainer == container = NoCtx

\* pkg.withDefaults({ db: connect(...), crypto }): a fresh container.
NewContainer == constructed + 1

\* Mutant: the container is registered before connect(...) has returned.
SlotAfterConnectThrowsRegistered == NewContainer

\* task._container = pkg.withDefaults({ db: connect(...), ... }) with connect
\* throwing: the assignment never happens.
SlotAfterConnectThrows == container

\* Lines 42-45 of one invocation.  how = "ok": the task definition returned a
\* task; "connect": connect(...) threw, so the assignment to task._container
\* never happened; "taskdef": the container is in place and the task
\* definition threw before returning a task.
Enter(i, how) ==
    /\ pc[i] = "ready"
    /\ IF how = "connect"
       THEN /\ NeedsContainer
            /\ pc' = [pc EXCEPT ![i] = "connectThrew"]
            /\ container' = SlotAfterConnectThrows
            /\ UNCHANGED <<constructed, owner, ctxOf>>
       ELSE /\ container' = IF NeedsContainer THEN NewContainer ELSE container
            /\ constructed' = IF NeedsContainer THEN constructed + 1 ELSE constructed
            /\ owner' = [owner EXCEPT ![i] = NeedsContainer]
            /\ ctxOf' = [ctxOf EXCEPT ![i] = container']
            /\ pc' = [pc EXCEPT ![i] = IF how = "ok" THEN "pending" ELSE "taskdefThrew"]
    /\ UNCHANGED <<result, returned, destroyLog>>

\* A synchronous throw out of the invocation handed to run / auditing: neither
\* ever attaches a handler.
JobAfterEnter(i, how) ==
    IF i = Main /\ how # "ok"
    THEN /\ runPc' = "threw"
         /\ audPc' = IF audited THEN "threw" ELSE audPc
         /\ UNCHANGED <<auditRecords, audOutcome>>
    ELSE UNCHANGED jobVars

\* The caller invokes withContainer(taskdef)(...args).
StartTop(i) ==
    /\ parent[i] = NoParent
    /\ Enter(i, "ok")
    /\ JobAfterEnter(i, "ok")
    /\ UNCHANGED <<shapeVars, procVars>>

\* The same, connect(...) or the task definition throwing.
StartTopThrows(i, how) ==
    /\ parent[i] = NoParent
    /\ Enter(i, how)
    /\ JobAfterEnter(i, how)
    /\ UNCHANGED <<shapeVars, procVars>>

\* As StartTop, by a caller that runs its invocations one after another.
StartTopSeq(i) ==
    /\ \A j \in AllInv : ~InFlight(j)
    /\ StartTop(i)

\* The parent's task is in progress and its earlier steps have settled.
StepEnabled(i) ==
    /\ parent[i] # NoParent
    /\ pc[parent[i]] = "pending"
    /\ \A j \in Children(parent[i]) : j < i => Finished(j)

\* A dependent step: an invocation made inside the task of its parent.
StartChild(i) ==
    /\ StepEnabled(i)
    /\ Enter(i, "ok")
    /\ UNCHANGED <<shapeVars, procVars, jobVars>>

\* The same, connect(...) or the task definition throwing: the parent's
\* handler chain sees a rejection.
StartChildThrows(i, how) ==
    /\ StepEnabled(i)
    /\ Enter(i, how)
    /\ UNCHANGED <<shapeVars, procVars, jobVars>>

\* next(inner): Promise.resolve.bind(Promise) on the first handler,
\* Promise.reject.bind(Promise) on the second.
CleanupNext(inner) ==
    IF inner.branch = "resolve" THEN Resolve(inner.val) ELSE Reject(inner.val)

\* Mutant: the cleanup forgets delete task._container.
CleanupSlotKept == container

\* delete task._container;
CleanupSlot == NoCtx

\* Mutant: the cleanup is attached whether or not this invocation constructed.
AttachesCleanupAlways(i) == TRUE

\* if (needsContainer) { ... return result.then(cleanup(...), cleanup(...)); }
AttachesCleanup(i) == owner[i]

\* Mutant: the teardown runs as soon as the task definition has returned.
CleanupDueEarly(i) == pc[i] \in {"pending", "settled"}

\* The handlers of result.then(...) run once result has settled.
CleanupDue(i) == pc[i] = "settled"

\* The task of the task definition settles.  A non-owner returned that very
\* task (line 58); an owner returned result.then(cleanup, cleanup), whose
\* handler runs later.
ResultSettle(i) ==
    /\ pc[i] = "pending"
    /\ \A j \in Children(i) : pc[j] = "ready" \/ Finished(j)
    /\ \E o \in Outcomes(i) :
          /\ result' = [result EXCEPT ![i] = o]
          /\ IF AttachesCleanup(i)
             THEN /\ pc' = [pc EXCEPT ![i] = "settled"]
                  /\ UNCHANGED returned
             ELSE /\ pc' = [pc EXCEPT ![i] = "done"]
                  /\ returned' = [returned EXCEPT ![i] = o]
    /\ UNCHANGED <<owner, ctxOf, container, constructed, destroyLog,
                   shapeVars, procVars, jobVars>>

\* cleanup(next)(inner), db.destroy() returning normally.
Cleanup(i) ==
    /\ CleanupDue(i)
    /\ pc' = [pc EXCEPT ![i] = "done"]
    /\ IF container = NoCtx
       THEN \* task._container.db on undefined: the handler throws
            /\ returned' = [returned EXCEPT ![i] = Reject(TypeError)]
            /\ UNCHANGED <<container, destroyLog>>
       ELSE /\ destroyLog' = Append(destroyLog, container)
            /\ container' = CleanupSlot
            /\ returned' = [returned EXCEPT ![i] = CleanupNext(result[i])]
    /\ UNCHANGED <<owner, ctxOf, result, constructed, shapeVars, procVars, jobVars>>

\* cleanup(next)(inner), db.destroy() throwing: the handler stops there.
CleanupDestroyThrows(i) ==
    /\ pc[i] = "settled"
    /\ container # NoCtx
    /\ pc' = [pc EXCEPT ![i] = "done"]
    /\ returned' = [returned EXCEPT ![i] = Reject(DestroyError)]
    /\ UNCHANGED <<owner, ctxOf, result, container, constructed, destroyLog,
                   shapeVars, procVars, jobVars>>

(***************************************************************************)
(* fault                                                                   *)
(***************************************************************************)
\* Mutant: the severity test is <= 500 instead of < 500.
FaultLinesInclusive(error) ==
    IF error.tag # "null" /\ error.isProblem = TRUE /\ error.httpCode <= 500
    THEN <<Raw(error.message)>> \o
         (IF error.problemDetails # "null"
          THEN <<InspectDetails(error.problemDetails)>>
          ELSE <<>>)
    ELSE <<Inspect(error)>>

\* Mutant: no (error != null) test; reading a property of null throws before
\* anything is written.
FaultLinesNoNullTest(error) ==
    IF error.tag = "null"
    THEN <<>>
    ELSE IF error.isProblem = TRUE /\ error.httpCode < 500
    THEN <<Raw(error.message)>> \o
         (IF error.problemDetails # "null"
          THEN <<InspectDetails(error.problemDetails)>>
          ELSE <<>>)
    ELSE <<Inspect(error)>>

FaultLines(error) ==
    IF error.tag # "null" /\ error.isProblem = TRUE /\ error.httpCode < 500
    THEN <<Raw(error.message)>> \o
         (IF error.problemDetails # "null"
          THEN <<InspectDetails(error.problemDetails)>>
          ELSE <<>>)
    ELSE <<Inspect(error)>>

\* Mutant: fault leaves process.exitCode alone.
FaultExitCodeKept(old) == old

\* process.exitCode = 1;
FaultExitCode(old) == 1

(***************************************************************************)
(* auditing                                                                *)
(***************************************************************************)
\* Option.of(error).map(Problem.serializable).orNull()
SerializableOrNull(error) ==
    IF error.tag = "null"
    THEN ErrNull
    ELSE Obj("serializable", error.isProblem, error.httpCode, error.message,
             error.problemDetails)

\* Mutant: the failure branch logs success too.
AuditRecordAlwaysSuccess(t) ==
    [action |-> "action", success |-> TRUE,
     details |-> IF t.branch = "resolve" THEN t.val ELSE SerializableOrNull(t.val)]

\* The arguments of Audit.log(null, action, null, merge({ success }, details)).
AuditRecord(t) ==
    IF t.branch = "resolve"
    THEN [action |-> "action", success |-> TRUE, details |-> t.val]
    ELSE [action |-> "action", success |-> FALSE, details |-> SerializableOrNull(t.val)]

\* Mutant: a failed append surfaces as the outcome.
AuditedOutcomeLeaky(t, a) ==
    IF a.branch = "resolve" THEN t ELSE Reject(a.val)

\* What the handlers on auditLog(...) return, t being the settlement of the
\* inner task and a that of auditLog(...).
AuditedOutcome(t, a) ==
    IF t.branch = "resolve"
    THEN (IF a.branch = "resolve" THEN Resolve(t.val) ELSE Resolve(t.val))
    ELSE (IF a.branch = "resolve" THEN Reject(t.val) ELSE Reject(t.val))

AuditFailureNote(t) ==
    IF t.branch = "resolve"
    THEN Raw("Failed to audit-log task success message!")
    ELSE Raw("Failed to audit-log task failure message!")

\* t has settled: its handler calls auditLog(action, success, details), one
\* more withContainer invocation.
AuditStart ==
    /\ audPc = "waiting"
    /\ pc[Main] = "done"
    /\ Enter(AuditInv, "ok")
    /\ audPc' = "logging"
    /\ auditRecords' = Append(auditRecords, AuditRecord(returned[Main]))
    /\ UNCHANGED <<audOutcome, runPc, shapeVars, procVars>>

\* As AuditStart, in a process whose invocations run one after another.
AuditStartSeq ==
    /\ \A j \in AllInv : ~InFlight(j)
    /\ AuditStart

\* The same, connect(...) or Audit.log throwing: the handler throws, and the
\* task auditing returned rejects with what it threw.
AuditStartThrows(how) ==
    /\ audPc = "waiting"
    /\ pc[Main] = "done"
    /\ Enter(AuditInv, how)
    /\ audPc' = "done"
    /\ audOutcome' = Reject(IF how = "connect" THEN ConnectError ELSE TaskdefError)
    /\ auditRecords' = IF how = "connect" THEN auditRecords
                       ELSE Append(auditRecords, AuditRecord(returned[Main]))
    /\ UNCHANGED <<runPc, shapeVars, procVars>>

\* Mutant: the outcome is re-surfaced without waiting for auditLog(...).
AuditLogSettledNotAwaited == TRUE

\* auditLog(...).then(...): the task auditLog returned has settled.
AuditLogSettled == pc[AuditInv] = "done"

\* auditLog(...) has settled: one of the two handlers attached to it runs.
AuditDone ==
    /\ audPc = "logging"
    /\ AuditLogSettled
    /\ audPc' = "done"
    /\ audOutcome' = AuditedOutcome(returned[Main], returned[AuditInv])
    /\ IF returned[AuditInv].branch = "resolve"
       THEN UNCHANGED <<stderr, exitCode>>
       ELSE /\ stderr' = stderr \o <<AuditFailureNote(returned[Main])>>
                                \o FaultLines(returned[AuditInv].val)
            /\ exitCode' = FaultExitCode(exitCode)
    /\ UNCHANGED <<stdout, auditRecords, runPc, shapeVars, pc, owner, ctxOf,
                   result, returned, container, constructed, destroyLog>>

(***************************************************************************)
(* run                                                                     *)
(***************************************************************************)
\* The settlement of the task handed to run.
RunSubject == IF audited THEN audOutcome ELSE returned[Main]
RunSubjectSettled == IF audited THEN audPc = "done" ELSE pc[Main] = "done"

\* Mutant: the result is inspected without being serialized.
RunStdoutUnserialized(v) == <<Inspect(v)>>

\* compose(writeTo(process.stdout), inspect, serialize)
RunStdout(v) == <<InspectSerialize(v)>>

RunSucceed ==
    /\ runPc = "pending"
    /\ RunSubjectSettled
    /\ RunSubject.branch = "resolve"
    /\ stdout' = stdout \o RunStdout(RunSubject.val)
    /\ runPc' = "succeeded"
    /\ UNCHANGED <<stderr, exitCode, auditRecords, audPc, audOutcome, shapeVars,
                   pc, owner, ctxOf, result, returned, container, constructed,
                   destroyLog>>

RunFault ==
    /\ runPc = "pending"
    /\ RunSubjectSettled
    /\ RunSubject.branch = "reject"
    /\ stderr' = stderr \o FaultLines(RunSubject.val)
    /\ exitCode' = FaultExitCode(exitCode)
    /\ runPc' = "failed"
    /\ UNCHANGED <<stdout, auditRecords, audPc, audOutcome, shapeVars,
                   pc, owner, ctxOf, result, returned, container, constructed,
                   destroyLog>>

(***************************************************************************)
(* Specifications                                                          *)
(***************************************************************************)
Settle ==
    \/ \E i \in AllInv : ResultSettle(i)
    \/ \E i \in AllInv : Cleanup(i)
    \/ RunSucceed
    \/ RunFault

\* Collaborators behave as their interfaces say (connect returns a handle,
\* db.destroy() returns); invocations may overlap.
Next ==
    \/ \E i \in Inv : StartTop(i)
    \/ \E i \in Inv : StartChild(i)
    \/ AuditStart
    \/ AuditDone
    \/ Settle

Spec == Init /\ [][Next]_vars

\* The caller makes its invocations one after another, none inside another.
InitSeq ==
    /\ Init
    /\ parent = [i \in Inv |-> NoParent]

NextSeq ==
    \/ \E i \in Inv : StartTopSeq(i)
    \/ AuditStartSeq
    \/ AuditDone
    \/ Settle

SpecSeq == InitSeq /\ [][NextSeq]_vars

Throws == {"connect", "taskdef"}

\* As Spec, and connect(...), db.destroy() and the task definition may throw.
NextF ==
    \/ Next
    \/ \E i \in Inv : \E how \in Throws : StartTopThrows(i, how)
    \/ \E i \in Inv : \E how \in Throws : StartChildThrows(i, how)
    \/ \E how \in Throws : AuditStartThrows(how)
    \/ \E i \in AllInv : CleanupDestroyThrows(i)

SpecF == Init /\ [][NextF]_vars

(***************************************************************************)
(* Claims                                                                  *)
(***************************************************************************)
RECURSIVE IsDesc(_, _)
\* d is a step, at any depth, of the task of invocation a.
IsDesc(d, a) ==
    /\ d \in Inv
    /\ parent[d] # NoParent
    /\ (parent[d] = a \/ IsDesc(parent[d], a))

Started(i) == pc[i] # "ready"
DestroyCount(c) == Cardinality({k \in 1..Len(destroyLog) : destroyLog[k] = c})
AppendFailed == audited /\ returned[AuditInv].branch = "reject"
RunSettled == runPc \in {"succeeded", "failed"}
\* The lines a step added to standard error.
NewStderr == SubSeq(stderr', Len(stderr) + 1, Len(stderr'))

\* C1: in a chain of dependent steps under an owning invocation, every step
\* runs on the one container the owner constructed and none constructs
\* another; db.destroy() has run on that container exactly once when the
\* owner's task has settled with the whole chain, and not at all before,
\* whichever steps resolved or rejected.
C1_ChainConstructsOnceTearsDownOnce ==
    \A i \in AllInv : (Started(i) /\ owner[i]) =>
        /\ ctxOf[i] # NoCtx
        /\ \A d \in Inv : (IsDesc(d, i) /\ Started(d)) =>
              /\ ~owner[d]
              /\ ctxOf[d] = ctxOf[i]
        /\ DestroyCount(ctxOf[i]) = (IF pc[i] = "done" THEN 1 ELSE 0)
        /\ pc[i] = "done" =>
              /\ result[i] # Unsettled
              /\ container # ctxOf[i]
              /\ \A d \in Inv : IsDesc(d, i) => pc[d] \in {"ready", "done"}

C1_Witness ==
    /\ owner[Main] /\ pc[Main] = "done"
    /\ \E d, e \in Inv :
          /\ d # e
          /\ IsDesc(d, Main) /\ IsDesc(e, Main)
          /\ pc[d] = "done" /\ pc[e] = "done"
          /\ result[d].branch = "reject"
          /\ result[e].branch = "resolve"
    /\ constructed = 1
    /\ destroyLog = <<ctxOf[Main]>>

\* C2: whatever the inner task settled with and whether the audit append
\* resolved or rejected, the task auditing returned settles on the same
\* branch with the same value or error as the inner task.
C2_AuditedOutcomeIsInnerOutcome ==
    audPc = "done" =>
        /\ audOutcome.branch = returned[Main].branch
        /\ audOutcome.val = returned[Main].val
        /\ audOutcome.val # AuditError

C2_Witness ==
    /\ audPc = "done"
    /\ returned[AuditInv] = Reject(AuditError)
    /\ returned[Main] = Resolve(Value("v1"))
    /\ audOutcome = Resolve(Value("v1"))

\* C3 as claimed: once run(auditing(action, t)) has settled with the audit
\* append failed, the exit status reflects t alone: 0 if t resolved, 1 if it
\* rejected.
C3_ExitStatusReflectsOnlyInnerOutcome ==
    (RunSettled /\ AppendFailed) =>
        exitCode = (IF returned[Main].branch = "resolve" THEN 0 ELSE 1)

\* C3 amended: once the handler of a failed audit append has run, the note and
\* the diagnostic of the audit error are on standard error and the exit status
\* is 1, whether t resolved or rejected; run still succeeds (with the result
\* line on standard output) exactly when t resolved.
C3_AuditFailureSetsExitStatus ==
    (audPc = "done" /\ AppendFailed) =>
        /\ exitCode = 1
        /\ Len(stderr) >= 2
        /\ stderr[1].fmt = "raw"
        /\ stderr[2] = Inspect(AuditError)
        /\ runPc = "succeeded" =>
              /\ returned[Main].branch = "resolve"
              /\ stdout = <<InspectSerialize(returned[Main].val)>>
        /\ runPc = "failed" => returned[Main].branch = "reject"

C3_Witness ==
    /\ runPc = "succeeded"
    /\ AppendFailed
    /\ returned[Main].branch = "resolve"
    /\ exitCode = 1
    /\ Len(stdout) = 1

\* C4: the step in which run's success handler fires adds exactly one line,
\* the inspected serialized result, to standard output, which held none, and
\* leaves standard error and the exit status as they were; unless an audit
\* append failed earlier, standard error is empty and the exit status 0.
C4_RunSuccessWritesOneStdoutLine ==
    [][(runPc = "pending" /\ runPc' = "succeeded") =>
          /\ stdout = <<>>
          /\ stdout' = <<InspectSerialize(RunSubject.val)>>
          /\ stderr' = stderr
          /\ exitCode' = exitCode
          /\ ~AppendFailed => (stderr' = <<>> /\ exitCode' = 0)]_vars

C4_Witness ==
    /\ runPc = "succeeded"
    /\ ~audited
    /\ stdout = <<InspectSerialize(Value("v1"))>>
    /\ stderr = <<>>
    /\ exitCode = 0

\* C5: run leaves Pending only once, for Succeeded or Failed, and never leaves
\* those.  The step to Succeeded is taken only on a resolved task, writes the
\* result line and does not set the exit status; the step to Failed is taken
\* on a rejected task (a null error included), writes at least one line to
\* standard error and none to standard output, and sets the exit status to 1.
C5_RunEndsSucceededOrFailed ==
    [][/\ runPc' # runPc =>
             (runPc = "pending" /\ runPc' \in {"succeeded", "failed"})
       /\ (runPc = "pending" /\ runPc' = "succeeded") =>
             /\ RunSubject.branch = "resolve"
             /\ Len(stdout') = Len(stdout) + 1
             /\ exitCode' = exitCode
       /\ (runPc = "pending" /\ runPc' = "failed") =>
             /\ RunSubject.branch = "reject"
             /\ Len(stderr') > Len(stderr)
             /\ stdout' = <<>>
             /\ exitCode' = 1]_vars

C5_Witness ==
    /\ runPc = "failed"
    /\ RunSubject = Reject(ErrNull)
    /\ stderr # <<>>
    /\ stdout = <<>>
    /\ exitCode = 1

\* C6: what run's failure handler adds to standard error: for a problem with
\* a code below 500 the message line, then the details line exactly when the
\* problem has details, and no debug dump of the error; for any other error
\* (a problem of 500 or more, a non-problem, null) the debug dump alone.
C6_DiagnosticChosenByClassification ==
    [][(runPc = "pending" /\ runPc' = "failed") =>
          LET e == RunSubject.val
              new == NewStderr
          IN  IF e.tag = "problem" /\ e.httpCode < 500
              THEN /\ Len(new) = (IF e.problemDetails = "null" THEN 1 ELSE 2)
                   /\ new[1] = Raw(e.message)
                   /\ e.problemDetails # "null" =>
                         new[2] = InspectDetails(e.problemDetails)
                   /\ \A k \in 1..Len(new) : new[k].fmt # "inspect"
              ELSE new = <<Inspect(e)>>]_vars

C6_Witness ==
    /\ runPc = "failed"
    /\ ~audited
    /\ returned[Main] = Reject(Problem499)
    /\ stderr = <<Raw("Conflict"), InspectDetails("details")>>

\* C7: with invocations made one after another, every invocation is an owner
\* with a container of its own, a finished invocation's container has been
\* released once, and whenever no invocation is in flight the slot is empty
\* and as many containers have been released as constructed.
C7_SequentialInvocationsEachOwnAndRelease ==
    /\ \A i \in AllInv : Started(i) =>
          /\ owner[i]
          /\ ctxOf[i] # NoCtx
          /\ \A j \in AllInv : (j # i /\ Started(j)) => ctxOf[j] # ctxOf[i]
          /\ pc[i] = "done" => DestroyCount(ctxOf[i]) = 1
    /\ (\A j \in AllInv : ~InFlight(j)) =>
          /\ container = NoCtx
          /\ Len(destroyLog) = constructed

C7_Witness ==
    /\ \A i \in Inv : pc[i] = "done"
    /\ constructed = NumInv
    /\ Len(destroyLog) = NumInv
    /\ container = NoCtx
    /\ \E i \in Inv : result[i].branch = "reject"

\* C8: when connect(...) fails in the invocation handed to run, the
\* invocation yields a task rejected with that failure, so run is still
\* pending on it or has reached Failed.
C8_ConstructionFailureRejectsTheTask ==
    pc[Main] = "connectThrew" =>
        /\ returned[Main] = Reject(ConnectError)
        /\ runPc \in {"pending", "failed"}

\* C9: the task an owning invocation returned settles exactly as the task of
\* its task definition did, db.destroy() throwing or not.
C9_TeardownKeepsOutcome ==
    \A i \in AllInv : (owner[i] /\ pc[i] = "done") => returned[i] = result[i]

\* C10: the task auditing returned settles with the inner task's outcome,
\* whether the append rejected or the container for the append could not be
\* constructed.
C10_AuditFailureNeverUnwinds ==
    (audPc = "done" /\ pc[AuditInv] \in {"done", "connectThrew"}) =>
        audOutcome = returned[Main]

\* C11: in run(auditing(action, T)) with T an owning withContainer task, the
\* audit append runs on the container T used, auditLog constructs none of
\* its own, and T's container is not released while the append is pending.
C11_AuditSharesTheTaskContainer ==
    (audited /\ owner[Main] /\ Started(AuditInv)) =>
        /\ ~owner[AuditInv]
        /\ ctxOf[AuditInv] = ctxOf[Main]
        /\ pc[AuditInv] = "pending" => DestroyCount(ctxOf[Main]) = 0

\* C12: an invocation that found a container in the slot takes the slot as
\* it is, constructs nothing, and when its task settles returns that
\* settlement with the slot and the handle untouched; a cleanup is run only
\* by an owner, on the container that owner constructed, which is then in
\* the slot; and the slot and the handle change in no other step than an
\* owner's construction and an owner's cleanup.
C12_OnlyTheOwnerReleases ==
    [][/\ \A i \in AllInv :
             /\ (pc[i] = "ready" /\ pc'[i] = "pending" /\ container # NoCtx) =>
                   /\ ~owner'[i]
                   /\ ctxOf'[i] = container
                   /\ container' = container
                   /\ constructed' = constructed
                   /\ destroyLog' = destroyLog
             /\ (pc[i] = "pending" /\ pc'[i] = "done") =>
                   /\ ~owner[i]
                   /\ returned'[i] = result'[i]
                   /\ container' = container
                   /\ destroyLog' = destroyLog
             /\ (pc[i] = "settled" /\ pc'[i] = "done") =>
                   /\ owner[i]
                   /\ container = ctxOf[i]
                   /\ destroyLog' = Append(destroyLog, ctxOf[i])
                   /\ container' = NoCtx
       /\ (container' # container \/ destroyLog' # destroyLog) =>
             \E i \in AllInv :
                /\ owner'[i]
                /\ \/ pc[i] = "ready" /\ pc'[i] = "pending"
                   \/ pc[i] = "settled" /\ pc'[i] = "done"]_vars

C12_Witness ==
    \E i, j \in AllInv :
       /\ i # j
       /\ owner[i] /\ pc[i] = "settled"
       /\ ~owner[j] /\ pc[j] = "done"
       /\ ~IsDesc(j, i)
       /\ ctxOf[j] = ctxOf[i]
       /\ container = ctxOf[i]
       /\ destroyLog = <<>>

\* C13: once an owning invocation is over, by its task having resolved or
\* rejected and its handler having run, or by the task definition having
\* thrown before returning a task, the container it constructed has been
\* released and is no longer in the slot.
C13_EveryExitPathReleases ==
    \A i \in AllInv :
       (owner[i] /\ pc[i] \in {"done", "taskdefThrew"}) =>
           /\ DestroyCount(ctxOf[i]) = 1
           /\ container # ctxOf[i]

\* C14: a step in which connect(...) throws leaves the slot empty and
\* registers nothing, and an invocation that starts with the slot empty is
\* an owner with a container never seen before.
C14_FailedConstructionLeavesSlotEmpty ==
    [][\A i \in AllInv :
          /\ (pc[i] = "ready" /\ pc'[i] = "connectThrew") =>
                /\ container' = NoCtx
                /\ constructed' = constructed
                /\ ~owner'[i]
                /\ ctxOf'[i] = NoCtx
          /\ (pc[i] = "ready" /\ pc'[i] \in {"pending", "taskdefThrew"}
                /\ \E j \in AllInv : pc[j] = "connectThrew"
                /\ container = NoCtx) =>
                /\ owner'[i]
                /\ container' = ctxOf'[i]
                /\ container' # NoCtx
                /\ \A j \in AllInv : ctxOf[j] # container'
                /\ DestroyCount(container') = 0]_vars

C14_Witness ==
    \E i, j \in AllInv :
       /\ pc[i] = "connectThrew"
       /\ pc[j] = "pending"
       /\ owner[j]
       /\ container = ctxOf[j]
       /\ constructed = 1

\* C15: the audit append is started only once the inner task has settled;
\* the task auditing returned settles only once the task auditLog returned
\* has settled; and run, handed the audited task, writes its line or its
\* diagnostic only after that, whichever branch the inner task took.
C15_AppendAfterTaskBeforeOutcome ==
    /\ (Started(AuditInv) \/ auditRecords # <<>>) =>
          /\ pc[Main] = "done"
          /\ returned[Main] # Unsettled
    /\ audPc = "waiting" => (auditRecords = <<>> /\ ~Started(AuditInv))
    /\ (audPc = "done" \/ audOutcome # Unsettled) =>
          /\ auditRecords # <<>>
          /\ pc[AuditInv] = "done"
          /\ returned[AuditInv] # Unsettled
    /\ (audited /\ RunSettled) =>
          /\ audPc = "done"
          /\ returned[AuditInv] # Unsettled
    /\ (audited /\ audPc # "done") => (stdout = <<>> /\ stderr = <<>>)

C15_Witness ==
    /\ audited
    /\ runPc = "failed"
    /\ returned[Main].branch = "reject"
    /\ returned[AuditInv].branch = "resolve"
    /\ Len(auditRecords) = 1

\* C16: in the chain under an owner the container exists before any step
\* starts, no step and not the owner's own task is in progress on a
\* released container, and once the owner's container has been released
\* every step of the chain that started has settled.
C16_StepsRunBetweenConstructionAndTeardown ==
    \A i \in AllInv : (Started(i) /\ owner[i]) =>
        /\ pc[i] = "pending" => DestroyCount(ctxOf[i]) = 0
        /\ \A d \in Inv : (IsDesc(d, i) /\ Started(d)) =>
              /\ ctxOf[d] # NoCtx
              /\ ctxOf[d] <= constructed
              /\ InFlight(d) =>
                    /\ DestroyCount(ctxOf[d]) = 0
                    /\ container = ctxOf[d]
        /\ DestroyCount(ctxOf[i]) > 0 =>
              /\ result[i] # Unsettled
              /\ \A d \in Inv : IsDesc(d, i) => ~InFlight(d)

C16_Witness ==
    \E d, e \in Inv :
       /\ owner[Main] /\ pc[Main] = "pending"
       /\ parent[d] = Main /\ parent[e] = d
       /\ pc[d] = "pending" /\ pc[e] = "pending"
       /\ ctxOf[e] = ctxOf[Main]
       /\ destroyLog = <<>>

OpenContainers == {c \in 1..constructed : DestroyCount(c) = 0}

\* C18: at most one container is open at any time, the slot when set holds
\* it, and the slot is empty exactly when none is open, also with
\* invocations overlapping.
C18_AtMostOneOpenContainer ==
    /\ Cardinality(OpenContainers) <= 1
    /\ container # NoCtx => OpenContainers = {container}
    /\ container = NoCtx => OpenContainers = {}
    /\ \A c \in 1..constructed : DestroyCount(c) <= 1

C18_Witness ==
    \E i, j \in Inv :
       /\ parent[i] = NoParent /\ parent[j] = NoParent
       /\ ~owner[j] /\ pc[j] = "pending"
       /\ owner[i] /\ pc[i] = "pending"
       /\ ctxOf[j] # ctxOf[i]
       /\ container = ctxOf[i]
       /\ constructed = 2
       /\ Len(destroyLog) = 1

====
